---- MODULE Spec2Model ----
(***************************************************************************)
(* Model of src/redis/redis.go: the redis-backed fixed-window bucket.      *)
(*                                                                         *)
(* Time is counted in microseconds (Go durations are nanoseconds; the      *)
(* model scales every duration by 1/1000, so time.Millisecond is 1000 and  *)
(* time.Second is 1000 * 1000).  The store keeps its deadlines in whole    *)
(* milliseconds, as redis does, so the conversions of lines 52, 78 and 131 *)
(* are real divisions and multiplications.                                 *)
(*                                                                         *)
(* A step of a handle is one store command together with the local code    *)
(* that runs on its reply, up to the point where the next command is sent. *)
(* The clock may advance, and other handles may run, between two steps.    *)
(***************************************************************************)
EXTENDS Integers, Sequences, FiniteSets, TLC

\* ---- bounds of the model ------------------------------------------------
MaxCapacity == 2
MaxAmount == 2
MaxTicks == 2
MaxFailures == 1
MaxTicksSeq == 5
TicksPerSecond == 2
Tolerance == 2000

\* ---- program constants --------------------------------------------------
millisecond == 1000
ErrNil == -1

Second == 1000 * millisecond
TickUs == Second \div TicksPerSecond
NoReply == ErrNil - 8

Handles == {1, 2}
Capacities == {MaxCapacity}
Amounts == 0..MaxAmount
PositiveAmounts == 1..MaxAmount
Rates == {Second}

VARIABLES
    now,      \* wall clock, microseconds
    store,    \* the counter key of the identifier in the shared store
    cfg,      \* capacity and rate every caller passes to Create
    bucket,   \* bucket[h]: the fields of the bucket object held by handle h
    pc,       \* pc[h]: where handle h is inside Create or Add
    call,     \* call[h]: frame of the call h is inside (NoCall between calls)
    ret,      \* the call that returned in the last step (NoCall if none did)
    sum,      \* history: amounts requested through h since a fresh Create
    fresh,    \* history: h came from Create on an absent key, no Add admitted yet
    lastAdd,  \* history: the undisturbed successful Add that just returned, no Create under way
    fails     \* number of store failures injected so far

vars == <<now, store, cfg, bucket, pc, call, ret, sum, fresh, lastAdd, fails>>

\* ---- helpers ------------------------------------------------------------
min(a, b) == IF a < b THEN a ELSE b

Unix(t) == t \div Second

NowMs(t) == t \div millisecond

\* ---- the store (redis commands on one key) ------------------------------
Absent == [present |-> FALSE, count |-> 0, expireAt |-> -1]

GET(s) == IF s.present THEN s.count ELSE ErrNil

\* variant: an increment that would pass the capacity is taken back
INCRBY_compensated(s, amount) ==
    IF s.count + amount > cfg.capacity
    THEN [present |-> TRUE, count |-> s.count, expireAt |-> s.expireAt]
    ELSE [present |-> TRUE, count |-> s.count + amount, expireAt |-> s.expireAt]

INCRBY(s, amount) == [present |-> TRUE, count |-> s.count + amount, expireAt |-> s.expireAt]

PEXPIRE(s, ms, t) ==
    IF ~s.present THEN s
    ELSE IF ms <= 0 THEN Absent
    ELSE [s EXCEPT !.expireAt = NowMs(t) + ms]

PTTL(s, t) ==
    IF ~s.present THEN -2
    ELSE IF s.expireAt = -1 THEN -1
    ELSE s.expireAt - NowMs(t)

Expire(s, t) ==
    IF s.present /\ s.expireAt # -1 /\ s.expireAt <= NowMs(t) THEN Absent ELSE s

\* ---- the bucket object --------------------------------------------------
NoBucket == [capacity |-> 0, remaining |-> 0, reset |-> 0, rate |-> 0]

Capacity(b) == b.capacity

\* variant: Remaining() looks the counter up in the store
Remaining_live(b) == b.capacity - min(b.capacity, IF store.present THEN store.count ELSE 0)

Remaining(b) == b.remaining

Reset(b) == b.reset

State(b) == [capacity |-> Capacity(b), remaining |-> Remaining(b), reset |-> Reset(b)]

NoState == [capacity |-> 0, remaining |-> 0, reset |-> 0]

\* variant: the cached reset is compared with now at full resolution
NeedsRefresh_exact(b, t) == ~(b.reset > t)

\* line 41: the cached reset is not in a later second than now
NeedsRefresh(b, t) == ~(Unix(b.reset) > Unix(t))

\* line 52
updateOldReset(b, ttl, t) == [b EXCEPT !.reset = t + ttl * millisecond]

\* variant: the counter read is ignored, every window looks unused
RemainingAfterGet_unread(b, got) == b.capacity

\* variant: a missing key leaves the cached remaining as it was
RemainingAfterGet_keepsCache(b, got) ==
    IF got = ErrNil THEN b.remaining ELSE b.capacity - min(got, b.capacity)

\* lines 63-69: remaining recomputed from the reply of GET
RemainingAfterGet(b, got) ==
    IF got = ErrNil THEN b.capacity ELSE b.capacity - min(got, b.capacity)

\* variant: an amount equal to the remaining quota is rejected
Admitted_strict(amount, remaining) == amount < remaining

\* variant: the amount is checked against the capacity, not the remaining quota
Admitted_atCapacity(amount, remaining) == ~(amount > cfg.capacity)

\* line 72, negated
Admitted(amount, remaining) == ~(amount > remaining)

\* variant: the duration is handed to PEXPIRE without the division
expiry_undivided(rate) == rate

\* line 78
expiry(rate) == rate \div millisecond

\* variant: every admitted Add sets the expiry
StartsWindow_always(count, amount) == count >= amount

\* line 83
StartsWindow(count, amount) == count = amount

\* variant: the counter is not clipped against the capacity
RemainingAfterIncr_unclipped(b, count) == b.capacity - count

\* variant: the remaining computed before the increment is returned
RemainingAfterIncr_stale(b, count) == b.remaining

\* line 92
RemainingAfterIncr(b, count) == b.capacity - min(count, b.capacity)

\* variant: the reset of a fresh bucket is the time of Create
FreshBucket_noRate(capacity, rate, t) ==
    [capacity |-> capacity, remaining |-> capacity, reset |-> t, rate |-> rate]

\* lines 115-123
FreshBucket(capacity, rate, t) ==
    [capacity |-> capacity, remaining |-> capacity, reset |-> t + rate, rate |-> rate]

\* variant: the attached bucket starts full, as the fresh one does
AttachedBucket_full(capacity, rate, count, ttl, t) ==
    [capacity |-> capacity, remaining |-> capacity,
     reset |-> t + ttl * millisecond, rate |-> rate]

\* lines 127-135
AttachedBucket(capacity, rate, count, ttl, t) ==
    [capacity |-> capacity, remaining |-> capacity - min(capacity, count),
     reset |-> t + ttl * millisecond, rate |-> rate]

\* ---- call frames and history --------------------------------------------
NoCall ==
    [h |-> 0, op |-> "none", amount |-> 0, before |-> 0, got |-> NoReply, count |-> NoReply,
     ttl |-> NoReply, cmds |-> <<>>, failed |-> FALSE, clean |-> TRUE, first |-> FALSE,
     err |-> "none", state |-> NoState]

NewCall(h, op, amount, before, first) ==
    [NoCall EXCEPT !.h = h, !.op = op, !.amount = amount, !.before = before, !.first = first,
                   !.err = "pending"]

Returned(c, err, st) == [c EXCEPT !.err = err, !.state = st]

NoLast == [h |-> 0, remaining |-> 0]

InFlight(g) == pc[g] \notin {"new", "idle"}

\* another handle changed the key while g was inside a call
Disturbed(h, c) ==
    [g \in Handles |-> IF g # h /\ InFlight(g) THEN [c[g] EXCEPT !.clean = FALSE] ELSE c[g]]

Disqualified(h, s) == [g \in Handles |-> IF g # h THEN -1 ELSE s[g]]

CanFail == fails < MaxFailures

TypeOK ==
    /\ now \in 0..((MaxTicks + MaxTicksSeq) * TickUs + Second)
    /\ store.present \in BOOLEAN
    /\ cfg.capacity \in Capacities /\ cfg.rate \in Rates
    /\ pc \in [Handles -> {"new", "idle", "c_pttl", "a_incr", "a_pexpire", "a_pttl", "a_full_pttl"}]
    /\ fails \in 0..MaxFailures

Init ==
    /\ now = 0
    /\ store = Absent
    /\ cfg \in [capacity : Capacities, rate : Rates]
    /\ bucket = [h \in Handles |-> NoBucket]
    /\ pc = [h \in Handles |-> "new"]
    /\ call = [h \in Handles |-> NoCall]
    /\ ret = NoCall
    /\ sum = [h \in Handles |-> -1]
    /\ fresh = [h \in Handles |-> FALSE]
    /\ lastAdd = NoLast
    /\ fails = 0

\* ---- the clock ----------------------------------------------------------
Elapse(last) ==
    /\ now < last
    /\ now' = now + TickUs
    /\ store' = Expire(store, now')
    /\ IF store' # store
       THEN /\ sum' = [g \in Handles |-> -1]
            /\ call' = Disturbed(0, call)
       ELSE UNCHANGED <<sum, call>>
    /\ lastAdd' = NoLast
    /\ ret' = NoCall
    /\ UNCHANGED <<cfg, bucket, pc, fresh, fails>>

Tick == Elapse(MaxTicks * TickUs)

\* the clock of the runs without overlapping Adds, which last longer
TickSeq == Elapse(MaxTicksSeq * TickUs)

\* ---- Storage.Create -----------------------------------------------------
\* lines 107-123: GET, and the bucket of an absent key
CreateGet(h) ==
    /\ pc[h] = "new"
    /\ LET c0 == [NewCall(h, "Create", 0, 0, FALSE) EXCEPT !.cmds = <<"GET">>]
       IN \/ /\ GET(store) = ErrNil
             /\ bucket' = [bucket EXCEPT ![h] = FreshBucket(cfg.capacity, cfg.rate, now)]
             /\ pc' = [pc EXCEPT ![h] = "idle"]
             /\ ret' = Returned([c0 EXCEPT !.got = ErrNil], "nil", State(bucket'[h]))
             /\ sum' = [sum EXCEPT ![h] = 0]
             /\ fresh' = [fresh EXCEPT ![h] = TRUE]
             /\ UNCHANGED call
          \/ /\ GET(store) # ErrNil
             /\ pc' = [pc EXCEPT ![h] = "c_pttl"]
             /\ call' = [call EXCEPT ![h] = [c0 EXCEPT !.got = GET(store)]]
             /\ ret' = NoCall
             /\ UNCHANGED <<bucket, sum, fresh>>
    /\ UNCHANGED <<now, store, cfg, lastAdd, fails>>

\* lines 110-113: GET fails, Create returns nil and the error
CreateGetFail(h) ==
    /\ pc[h] = "new"
    /\ CanFail
    /\ fails' = fails + 1
    /\ ret' = Returned([NewCall(h, "Create", 0, 0, FALSE)
                          EXCEPT !.cmds = <<"GET">>, !.failed = TRUE], "store", NoState)
    /\ UNCHANGED <<now, store, cfg, bucket, pc, call, sum, fresh, lastAdd>>

\* lines 124-137: PTTL, and the bucket attached to an existing key
CreatePttl(h) ==
    /\ pc[h] = "c_pttl"
    /\ LET ttl == PTTL(store, now)
           c0 == [call[h] EXCEPT !.cmds = Append(@, "PTTL"), !.ttl = ttl]
       IN /\ bucket' = [bucket EXCEPT ![h] =
                          AttachedBucket(cfg.capacity, cfg.rate, call[h].got, ttl, now)]
          /\ ret' = Returned(c0, "nil", State(bucket'[h]))
    /\ pc' = [pc EXCEPT ![h] = "idle"]
    /\ call' = [call EXCEPT ![h] = NoCall]
    /\ UNCHANGED <<now, store, cfg, sum, fresh, lastAdd, fails>>

\* variant: a failed PTTL is dropped and the bucket is returned with reset = now
CreatePttlFail_swallowed(h) ==
    /\ pc[h] = "c_pttl"
    /\ CanFail
    /\ fails' = fails + 1
    /\ bucket' = [bucket EXCEPT ![h] =
                     AttachedBucket(cfg.capacity, cfg.rate, call[h].got, 0, now)]
    /\ pc' = [pc EXCEPT ![h] = "idle"]
    /\ ret' = Returned([call[h] EXCEPT !.cmds = Append(@, "PTTL"), !.failed = TRUE],
                       "nil", State(bucket'[h]))
    /\ call' = [call EXCEPT ![h] = NoCall]
    /\ UNCHANGED <<now, store, cfg, sum, fresh, lastAdd>>

\* lines 124-125: PTTL fails, Create returns nil and the error
CreatePttlFail(h) ==
    /\ pc[h] = "c_pttl"
    /\ CanFail
    /\ fails' = fails + 1
    /\ pc' = [pc EXCEPT ![h] = "new"]
    /\ ret' = Returned([call[h] EXCEPT !.cmds = Append(@, "PTTL"), !.failed = TRUE],
                       "store", NoState)
    /\ call' = [call EXCEPT ![h] = NoCall]
    /\ UNCHANGED <<now, store, cfg, bucket, sum, fresh, lastAdd>>

\* ---- bucket.Add ---------------------------------------------------------
\* lines 89-93: the successful return
Succeed(h, b, c, base) ==
    LET b2 == [b EXCEPT !.remaining = RemainingAfterIncr(b, c.count)]
    IN /\ bucket' = [bucket EXCEPT ![h] = b2]
       /\ pc' = [pc EXCEPT ![h] = "idle"]
       /\ call' = [base EXCEPT ![h] = NoCall]
       /\ ret' = Returned(c, "nil", State(b2))
       /\ fresh' = [fresh EXCEPT ![h] = FALSE]
       /\ lastAdd' = IF c.clean /\ \A g \in Handles : pc[g] # "c_pttl"
                     THEN [h |-> h, remaining |-> b2.remaining]
                     ELSE NoLast

\* lines 66, 82, 85: return b.State(), err
Abort(h, c) ==
    /\ CanFail
    /\ fails' = fails + 1
    /\ pc' = [pc EXCEPT ![h] = "idle"]
    /\ call' = [call EXCEPT ![h] = NoCall]
    /\ ret' = Returned([c EXCEPT !.failed = TRUE], "store", State(bucket[h]))
    /\ sum' = [sum EXCEPT ![h] = -1]
    /\ lastAdd' = NoLast
    /\ UNCHANGED <<now, store, cfg, bucket, fresh>>

\* lines 58-75: GET, the admission check, and the rejection when reset is current
AddGet(h, amount) ==
    /\ pc[h] = "idle"
    /\ LET got == GET(store)
           b1 == [bucket[h] EXCEPT !.remaining = RemainingAfterGet(bucket[h], got)]
           c1 == [NewCall(h, "Add", amount, Remaining(bucket[h]), fresh[h])
                    EXCEPT !.cmds = <<"GET">>, !.got = got]
       IN /\ bucket' = [bucket EXCEPT ![h] = b1]
          /\ IF ~Admitted(amount, b1.remaining)
             THEN IF NeedsRefresh(b1, now)
                  THEN /\ pc' = [pc EXCEPT ![h] = "a_full_pttl"]
                       /\ call' = [call EXCEPT ![h] = c1]
                       /\ ret' = NoCall
                  ELSE /\ pc' = pc
                       /\ call' = call
                       /\ ret' = Returned(c1, "full", State(b1))
             ELSE /\ pc' = [pc EXCEPT ![h] = "a_incr"]
                  /\ call' = [call EXCEPT ![h] = c1]
                  /\ ret' = NoCall
    /\ sum' = [sum EXCEPT ![h] =
                 IF @ >= 0 /\ @ + amount <= bucket[h].capacity THEN @ + amount ELSE -1]
    /\ lastAdd' = NoLast
    /\ UNCHANGED <<now, store, cfg, fresh, fails>>

\* variant: a failed GET is taken for a missing key before the error is returned
AddGetFail_asMissing(h, amount) ==
    /\ pc[h] = "idle"
    /\ CanFail
    /\ fails' = fails + 1
    /\ bucket' = [bucket EXCEPT ![h].remaining = bucket[h].capacity]
    /\ ret' = Returned([NewCall(h, "Add", amount, Remaining(bucket[h]), fresh[h])
                          EXCEPT !.cmds = <<"GET">>, !.failed = TRUE], "store", State(bucket'[h]))
    /\ sum' = [sum EXCEPT ![h] = -1]
    /\ lastAdd' = NoLast
    /\ UNCHANGED <<now, store, cfg, pc, call, fresh>>

\* lines 61-67: GET fails with an error other than ErrNil
AddGetFail(h, amount) ==
    /\ pc[h] = "idle"
    /\ Abort(h, [NewCall(h, "Add", amount, Remaining(bucket[h]), fresh[h])
                   EXCEPT !.cmds = <<"GET">>])

\* lines 72-75 with lines 45-53: PTTL of a rejected Add, then the BucketFull return
AddFullPttl(h) ==
    /\ pc[h] = "a_full_pttl"
    /\ LET ttl == PTTL(store, now)
           b1 == updateOldReset(bucket[h], ttl, now)
           c0 == [call[h] EXCEPT !.cmds = Append(@, "PTTL"), !.ttl = ttl]
       IN /\ bucket' = [bucket EXCEPT ![h] = b1]
          /\ ret' = Returned(c0, "full", State(b1))
    /\ pc' = [pc EXCEPT ![h] = "idle"]
    /\ call' = [call EXCEPT ![h] = NoCall]
    /\ lastAdd' = NoLast
    /\ UNCHANGED <<now, store, cfg, sum, fresh, fails>>

\* lines 48-51 and 73-74: PTTL of a rejected Add fails; the error is dropped
AddFullPttlFail(h) ==
    /\ pc[h] = "a_full_pttl"
    /\ CanFail
    /\ fails' = fails + 1
    /\ ret' = Returned([call[h] EXCEPT !.cmds = Append(@, "PTTL"), !.failed = TRUE],
                       "full", State(bucket[h]))
    /\ pc' = [pc EXCEPT ![h] = "idle"]
    /\ call' = [call EXCEPT ![h] = NoCall]
    /\ lastAdd' = NoLast
    /\ UNCHANGED <<now, store, cfg, bucket, sum, fresh>>

\* lines 80-83 (and 89-93 when neither PEXPIRE nor PTTL follows): INCRBY
AddIncr(h) ==
    /\ pc[h] = "a_incr"
    /\ LET s1 == INCRBY(store, call[h].amount)
           c1 == [call[h] EXCEPT !.cmds = Append(@, "INCRBY"), !.count = GET(s1)]
           base == Disturbed(h, call)
       IN /\ store' = s1
          /\ IF StartsWindow(c1.count, c1.amount)
             THEN /\ pc' = [pc EXCEPT ![h] = "a_pexpire"]
                  /\ call' = [base EXCEPT ![h] = c1]
                  /\ ret' = NoCall
                  /\ lastAdd' = NoLast
                  /\ UNCHANGED <<bucket, fresh>>
             ELSE IF NeedsRefresh(bucket[h], now)
             THEN /\ pc' = [pc EXCEPT ![h] = "a_pttl"]
                  /\ call' = [base EXCEPT ![h] = c1]
                  /\ ret' = NoCall
                  /\ lastAdd' = NoLast
                  /\ UNCHANGED <<bucket, fresh>>
             ELSE Succeed(h, bucket[h], c1, base)
    /\ sum' = Disqualified(h, sum)
    /\ UNCHANGED <<now, cfg, fails>>

\* lines 80-82: INCRBY fails
AddIncrFail(h) ==
    /\ pc[h] = "a_incr"
    /\ Abort(h, [call[h] EXCEPT !.cmds = Append(@, "INCRBY")])

\* lines 84-86 (and 89-93 when no PTTL follows): PEXPIRE
AddPexpire(h) ==
    /\ pc[h] = "a_pexpire"
    /\ LET c0 == [call[h] EXCEPT !.cmds = Append(@, "PEXPIRE")]
           base == Disturbed(h, call)
       IN /\ store' = PEXPIRE(store, expiry(bucket[h].rate), now)
          /\ IF NeedsRefresh(bucket[h], now)
             THEN /\ pc' = [pc EXCEPT ![h] = "a_pttl"]
                  /\ call' = [base EXCEPT ![h] = c0]
                  /\ ret' = NoCall
                  /\ lastAdd' = NoLast
                  /\ UNCHANGED <<bucket, fresh>>
             ELSE Succeed(h, bucket[h], c0, base)
    /\ sum' = Disqualified(h, sum)
    /\ UNCHANGED <<now, cfg, fails>>

\* variant: the increment is taken back when PEXPIRE fails
AddPexpireFail_rollback(h) ==
    /\ pc[h] = "a_pexpire"
    /\ CanFail
    /\ fails' = fails + 1
    /\ store' = IF store.present THEN [store EXCEPT !.count = @ - call[h].amount] ELSE store
    /\ pc' = [pc EXCEPT ![h] = "idle"]
    /\ ret' = Returned([call[h] EXCEPT !.cmds = Append(@, "PEXPIRE"), !.failed = TRUE],
                       "store", State(bucket[h]))
    /\ call' = [call EXCEPT ![h] = NoCall]
    /\ sum' = [sum EXCEPT ![h] = -1]
    /\ lastAdd' = NoLast
    /\ UNCHANGED <<now, cfg, bucket, fresh>>

\* lines 84-86: PEXPIRE fails after the increment was applied
AddPexpireFail(h) ==
    /\ pc[h] = "a_pexpire"
    /\ Abort(h, [call[h] EXCEPT !.cmds = Append(@, "PEXPIRE")])

\* line 89 with lines 45-53, then lines 91-93: PTTL of an admitted Add
AddPttl(h) ==
    /\ pc[h] = "a_pttl"
    /\ LET ttl == PTTL(store, now)
       IN Succeed(h, updateOldReset(bucket[h], ttl, now),
                  [call[h] EXCEPT !.cmds = Append(@, "PTTL"), !.ttl = ttl], call)
    /\ UNCHANGED <<now, store, cfg, sum, fails>>

\* variant: the error of the refresh is returned by the surrounding Add
AddPttlFail_surfaced(h) ==
    /\ pc[h] = "a_pttl"
    /\ Abort(h, [call[h] EXCEPT !.cmds = Append(@, "PTTL")])

\* lines 48-51 and 89-93: PTTL of an admitted Add fails; the error is dropped
AddPttlFail(h) ==
    /\ pc[h] = "a_pttl"
    /\ CanFail
    /\ fails' = fails + 1
    /\ Succeed(h, bucket[h], [call[h] EXCEPT !.cmds = Append(@, "PTTL"), !.failed = TRUE], call)
    /\ UNCHANGED <<now, store, cfg, sum>>

\* ---- the accessors ------------------------------------------------------
\* lines 20-36: Capacity(), Remaining(), Reset() and State() of a handle that
\* is between calls (the bucket is not safe for concurrent use)
Read(h) ==
    /\ pc[h] = "idle"
    /\ ret' = Returned(NewCall(h, "State", 0, Remaining(bucket[h]), FALSE), "nil", State(bucket[h]))
    /\ UNCHANGED <<now, store, cfg, bucket, pc, call, sum, fresh, lastAdd, fails>>

\* ---- specifications -----------------------------------------------------
\* the steps that follow the first command of a call, and the clock
Steps ==
    \/ Tick
    \/ \E h \in Handles : CreateGet(h)
    \/ \E h \in Handles : CreatePttl(h)
    \/ \E h \in Handles : AddFullPttl(h)
    \/ \E h \in Handles : AddIncr(h)
    \/ \E h \in Handles : AddPexpire(h)
    \/ \E h \in Handles : AddPttl(h)

\* every store command succeeds; Add is called with any amount, 0 included
Next ==
    \/ Steps
    \/ \E h \in Handles : \E amount \in Amounts : AddGet(h, amount)

Spec == Init /\ [][Next]_vars

\* store commands may fail, at most MaxFailures times; amounts are positive
NextFail ==
    \/ Steps
    \/ \E h \in Handles : \E amount \in PositiveAmounts : AddGet(h, amount)
    \/ \E h \in Handles : CreateGetFail(h)
    \/ \E h \in Handles : CreatePttlFail(h)
    \/ \E h \in Handles : \E amount \in PositiveAmounts : AddGetFail(h, amount)
    \/ \E h \in Handles : AddFullPttlFail(h)
    \/ \E h \in Handles : AddIncrFail(h)
    \/ \E h \in Handles : AddPexpireFail(h)
    \/ \E h \in Handles : AddPttlFail(h)

SpecFail == Init /\ [][NextFail]_vars

\* the same, and the accessors may be called on any handle between its calls
NextRead ==
    \/ NextFail
    \/ \E h \in Handles : Read(h)

SpecRead == Init /\ [][NextRead]_vars

\* no handle is inside an Add
NoAddUnderWay == \A g \in Handles : pc[g] \in {"new", "idle", "c_pttl"}

\* an Add starts only when no other Add is under way
AddGetSeq(h, amount) == NoAddUnderWay /\ AddGet(h, amount)

\* Adds on the identifier never overlap: each Add, from whichever handle,
\* runs all its store commands before the next Add starts; the clock, and
\* with it the expiry of the key, advances at any point; Create may run
\* beside an Add; every store command succeeds
NextSeq ==
    \/ TickSeq
    \/ \E h \in Handles : CreateGet(h)
    \/ \E h \in Handles : CreatePttl(h)
    \/ \E h \in Handles : \E amount \in Amounts : AddGetSeq(h, amount)
    \/ \E h \in Handles : AddFullPttl(h)
    \/ \E h \in Handles : AddIncr(h)
    \/ \E h \in Handles : AddPexpire(h)
    \/ \E h \in Handles : AddPttl(h)

SpecSeq == Init /\ [][NextSeq]_vars

\* the caller that keeps retrying, and the time from which it is alone
Retrier == 1

QuietFrom == MaxTicks * TickUs

\* every key that exists at QuietFrom has expired one window later
LiveUntil == QuietFrom + Second + TickUs

Quiet == now >= QuietFrom

\* the clock; it passes QuietFrom only when no other caller is inside a call
TickLive ==
    /\ now + TickUs >= QuietFrom => \A g \in Handles \ {Retrier} : ~InFlight(g)
    /\ Elapse(LiveUntil)

\* before QuietFrom: any caller, overlapping calls, store failures
Early ==
    /\ ~Quiet
    /\ \/ \E h \in Handles : CreateGet(h)
       \/ \E h \in Handles : CreatePttl(h)
       \/ \E h \in Handles : \E amount \in PositiveAmounts : AddGet(h, amount)
       \/ \E h \in Handles : AddFullPttl(h)
       \/ \E h \in Handles : AddIncr(h)
       \/ \E h \in Handles : AddPexpire(h)
       \/ \E h \in Handles : AddPttl(h)
       \/ \E h \in Handles : CreateGetFail(h)
       \/ \E h \in Handles : CreatePttlFail(h)
       \/ \E h \in Handles : \E amount \in PositiveAmounts : AddGetFail(h, amount)
       \/ \E h \in Handles : AddFullPttlFail(h)
       \/ \E h \in Handles : AddIncrFail(h)
       \/ \E h \in Handles : AddPexpireFail(h)
       \/ \E h \in Handles : AddPttlFail(h)

\* from QuietFrom on: every store command succeeds and the retrier alone
\* calls, Add(amount) with 0 < amount <= capacity again and again
Retry ==
    /\ Quiet
    /\ \/ CreateGet(Retrier)
       \/ CreatePttl(Retrier)
       \/ \E amount \in PositiveAmounts : amount <= cfg.capacity /\ AddGet(Retrier, amount)
       \/ AddFullPttl(Retrier)
       \/ AddIncr(Retrier)
       \/ AddPexpire(Retrier)
       \/ AddPttl(Retrier)

NextLive == TickLive \/ Early \/ Retry

\* time keeps advancing and the retrier keeps calling; every call runs to
\* its return
SpecLive == Init /\ [][NextLive]_vars /\ WF_vars(TickLive) /\ WF_vars(Retry)

\* ---- properties ---------------------------------------------------------
\* the counter value a GET reply stands for (a missing key counts as 0)
Count(got) == IF got = ErrNil THEN 0 ELSE got

Issued(c, cmd) == \E i \in DOMAIN c.cmds : c.cmds[i] = cmd

Abs(x) == IF x < 0 THEN -x ELSE x

\* the step in which h's INCRBY, PEXPIRE is applied
IncrStep(h) == pc[h] = "a_incr" /\ pc'[h] # "a_incr" /\ fails' = fails

PexpireStep(h) == pc[h] = "a_pexpire" /\ pc'[h] # "a_pexpire" /\ fails' = fails

\* a step of Create by h
CreateStep(h) ==
    /\ pc[h] \in {"new", "c_pttl"}
    /\ pc'[h] # pc[h] \/ (ret' # ret /\ ret'.h = h /\ ret'.op = "Create")

\* a step of an Add of h that is rejected as full
FullStep(h) ==
    \/ pc[h] = "a_full_pttl" /\ pc'[h] # "a_full_pttl"
    \/ pc[h] = "idle" /\ pc'[h] = "a_full_pttl"
    \/ pc[h] = "idle" /\ ret' # ret /\ ret'.h = h /\ ret'.err = "full"

\* C1: the cached remaining of every handle, and the remaining in the snapshot
\* every Add returns (nil, BucketFull or store error), lies in [0, capacity],
\* also when overlapping Adds drove the store counter above the capacity.
C1_RemainingInRange ==
    /\ \A h \in Handles :
          /\ bucket[h].remaining \in 0..bucket[h].capacity
          /\ pc[h] \notin {"new", "c_pttl"} => bucket[h].capacity = cfg.capacity
    /\ ret.op = "Add" =>
          /\ ret.state.capacity = cfg.capacity
          /\ ret.state.remaining \in 0..cfg.capacity

C1_Witness ==
    /\ ret.op = "Add" /\ ret.err = "nil"
    /\ store.present /\ store.count > cfg.capacity
    /\ ret.count > cfg.capacity
    /\ ret.state.remaining = 0

\* C2: the counter changes only by whole increments and by expiry: an
\* INCRBY adds its full amount even when the total passes the capacity,
\* and no step takes an increment back.  The witness is the over-admission:
\* two handles read the same value, both pass the check, both increment.
C2_NoRollback ==
    [][/\ \A h \in Handles : IncrStep(h) =>
             store'.present /\ store'.count = store.count + call[h].amount
       /\ (store'.present /\ ~\E h \in Handles : IncrStep(h)) =>
             store.present /\ store'.count = store.count]_vars

C2_Witness ==
    \E h \in Handles :
        /\ ret.op = "Add" /\ ret.err = "nil" /\ ret.h # h
        /\ InFlight(h) /\ call[h].op = "Add" /\ call[h].count # NoReply
        /\ call[h].got = ret.got
        /\ Admitted(call[h].amount, cfg.capacity - min(cfg.capacity, Count(ret.got)))
        /\ Admitted(ret.amount, cfg.capacity - min(cfg.capacity, Count(ret.got)))
        /\ store.present
        /\ store.count = Count(ret.got) + call[h].amount + ret.amount
        /\ store.count > cfg.capacity

\* C3: an Add that returns BucketFull issued neither INCRBY nor PEXPIRE and
\* none of its steps changed the store; an Add whose GET succeeded returns
\* BucketFull exactly when amount > capacity - min(capacity, counter read).
C3_FullIsNoOp ==
    [][/\ \A h \in Handles : FullStep(h) => store' = store
       /\ ret'.op = "Add" /\ ret'.err = "full" =>
             ~Issued(ret', "INCRBY") /\ ~Issued(ret', "PEXPIRE")
       /\ ret'.op = "Add" /\ ret'.got # NoReply =>
             (ret'.err = "full" <=>
                ret'.amount > cfg.capacity - min(cfg.capacity, Count(ret'.got)))]_vars

C3_Witness ==
    /\ ret.op = "Add" /\ ret.err = "full"
    /\ store.present /\ store.count > 0 /\ store.count < cfg.capacity
    /\ ret.amount = cfg.capacity - store.count + 1

\* C4: through one handle created on an absent key, with no other handle
\* changing the key, no store failure and no expiry, Adds whose amounts sum
\* to at most the capacity all succeed, and the remaining after each is the
\* capacity minus the sum so far.
C4_SumOfAmounts ==
    (ret.op = "Add" /\ sum[ret.h] >= 0) =>
        /\ ret.err = "nil"
        /\ ret.state.remaining = cfg.capacity - sum[ret.h]
        /\ bucket[ret.h].remaining = cfg.capacity - sum[ret.h]

C4_Witness ==
    /\ ret.op = "Add" /\ ret.err = "nil"
    /\ sum[ret.h] = cfg.capacity
    /\ ret.amount < cfg.capacity
    /\ ret.state.remaining = 0

\* C5 as stated: an Add with amount > Remaining() before the call returns
\* BucketFull and leaves Remaining() as it was, in every reachable state.
C5_Original ==
    (ret.op = "Add" /\ ret.got # NoReply /\ ret.amount > ret.before) =>
        /\ ret.err = "full"
        /\ ret.state.remaining = ret.before

\* C5 amended: the same, when the cached remaining is still current, that
\* is equal to capacity - min(capacity, counter the Add reads).
C5_FullWhenCacheCurrent ==
    (/\ ret.op = "Add" /\ ret.got # NoReply /\ ret.amount > ret.before
     /\ ret.before = cfg.capacity - min(cfg.capacity, Count(ret.got))) =>
        /\ ret.err = "full"
        /\ ret.state.remaining = ret.before
        /\ bucket[ret.h].remaining = ret.before

C5_Witness ==
    /\ ret.op = "Add" /\ ret.err = "full"
    /\ ret.before > 0 /\ ret.amount > ret.before
    /\ ret.before = cfg.capacity - min(cfg.capacity, Count(ret.got))
    /\ bucket[ret.h].remaining = ret.before

\* C6: PEXPIRE sets the key to expire exactly one window (rate) after the
\* step that issues it, and the key is there when an undisturbed Add that
\* read it as absent issues PEXPIRE; an Add whose INCRBY succeeded issues
\* PEXPIRE if and only if the total INCRBY returned equals its amount; an
\* undisturbed successful Add that read the key as absent does issue it.
C6_ExpiryOnWindowStart ==
    [][/\ \A h \in Handles : PexpireStep(h) =>
             /\ (call[h].got = ErrNil /\ call[h].clean) => store.present
             /\ store.present =>
                   /\ store'.present
                   /\ (store'.expireAt - NowMs(now)) * millisecond = bucket[h].rate
       /\ ret'.op = "Add" /\ ret'.count # NoReply =>
             (Issued(ret', "PEXPIRE") <=> ret'.count = ret'.amount)
       /\ ret'.op = "Add" /\ ret'.err = "nil" /\ ret'.got = ErrNil /\ ret'.clean =>
             Issued(ret', "PEXPIRE")]_vars

C6_Witness ==
    /\ ret.op = "Add" /\ ret.err = "nil" /\ ret.first /\ ret.got = ErrNil
    /\ Issued(ret, "PEXPIRE")
    /\ now > 0
    /\ ret.state.reset = cfg.rate
    /\ store.present /\ store.expireAt * millisecond = now + cfg.rate

\* C7: an Add that reads the key as absent, with amount <= capacity, no
\* store failure and no other handle changing the key meanwhile, succeeds,
\* returns remaining = capacity - amount and issues PEXPIRE, whatever the
\* handle had cached.
C7_FreshAfterExpiry ==
    (/\ ret.op = "Add" /\ ret.got = ErrNil /\ ret.amount <= cfg.capacity
     /\ ret.clean /\ ~ret.failed) =>
        /\ ret.err = "nil"
        /\ ret.state.remaining = cfg.capacity - ret.amount
        /\ bucket[ret.h].remaining = cfg.capacity - ret.amount
        /\ Issued(ret, "PEXPIRE")

C7_Witness ==
    /\ ret.op = "Add" /\ ret.err = "nil" /\ ret.got = ErrNil
    /\ ~ret.first /\ ret.before = 0
    /\ ret.state.remaining = cfg.capacity - ret.amount
    /\ store.present /\ store.expireAt * millisecond = now + cfg.rate

\* C8 as stated: after the first successful Add on a bucket created on an
\* absent key, reset is within Tolerance of the moment the key expires
\* (the time of that Add plus the window), whatever the delay since Create.
C8_ResetIsExpiry ==
    (/\ ret.op = "Add" /\ ret.err = "nil" /\ ret.first /\ ret.clean /\ ~ret.failed
     /\ Issued(ret, "PEXPIRE") /\ store.present /\ store.expireAt # -1) =>
        Abs(ret.state.reset - store.expireAt * millisecond) <= Tolerance

\* C9: no step of Create changes the store and Create issues only GET and
\* PTTL; on an absent key it returns remaining = capacity and
\* reset = now + rate after GET alone, and the key is still absent.
C9_CreateReadsOnly ==
    [][/\ \A h \in Handles : CreateStep(h) => store' = store
       /\ ret'.op = "Create" =>
             \A i \in DOMAIN ret'.cmds : ret'.cmds[i] \in {"GET", "PTTL"}
       /\ ret'.op = "Create" /\ ret'.got = ErrNil =>
             /\ ret'.err = "nil"
             /\ ret'.cmds = <<"GET">>
             /\ ret'.state.remaining = cfg.capacity
             /\ ret'.state.reset = now + cfg.rate
             /\ ~store'.present]_vars

C9_Witness ==
    /\ ret.op = "Create" /\ ret.err = "nil" /\ ret.got = ErrNil
    /\ now > 0
    /\ ret.state.remaining = cfg.capacity
    /\ ret.state.reset = now + cfg.rate
    /\ ~store.present

\* C10: Create on a present key returns remaining = capacity -
\* min(capacity, counter) and reset = now + the key's remaining
\* time-to-live; right after another handle's undisturbed successful Add it
\* reports the remaining that Add returned.
C10_AttachToExisting ==
    /\ (ret.op = "Create" /\ ret.err = "nil" /\ ret.got # ErrNil) =>
          /\ ret.state.remaining = cfg.capacity - min(cfg.capacity, ret.got)
          /\ ret.state.reset = now + ret.ttl * millisecond
          /\ (store.present /\ store.expireAt # -1) =>
                ret.state.reset = now + (store.expireAt - NowMs(now)) * millisecond
    /\ (ret.op = "Create" /\ ret.err = "nil" /\ lastAdd # NoLast) =>
          /\ ret.got # ErrNil
          /\ ret.state.remaining = lastAdd.remaining

C10_Witness ==
    /\ ret.op = "Create" /\ ret.err = "nil" /\ ret.got # ErrNil
    /\ lastAdd # NoLast /\ lastAdd.h # ret.h
    /\ lastAdd.remaining < cfg.capacity
    /\ ret.state.remaining = lastAdd.remaining
    /\ ret.ttl > 0

\* the step in which a store command of h fails
FailStep(h) == fails' # fails /\ ret'.h = h /\ ret'.failed

\* C11: when the PTTL of the refresh inside Add fails, the Add ends as it
\* would have without the refresh: a rejected Add returns BucketFull with the
\* handle's state untouched, an admitted Add returns no error with
\* remaining = capacity - min(capacity, total INCRBY returned); the store is
\* left alone, and reset has in both cases the value it had when the Add
\* began (no earlier step of an Add writes reset).
C11_RefreshFailureSwallowed ==
    [][\A h \in Handles :
          /\ (pc[h] = "a_full_pttl" /\ FailStep(h)) =>
                /\ ret'.err = "full"
                /\ ret'.state = State(bucket[h])
                /\ bucket'[h] = bucket[h]
                /\ store' = store
          /\ (pc[h] = "a_pttl" /\ FailStep(h)) =>
                /\ ret'.err = "nil"
                /\ ret'.state.remaining = cfg.capacity - min(cfg.capacity, call[h].count)
                /\ bucket'[h].remaining = ret'.state.remaining
                /\ ret'.state.reset = bucket[h].reset
                /\ bucket'[h].reset = bucket[h].reset
                /\ store' = store
          /\ (pc[h] \in {"idle", "a_incr", "a_pexpire"} \/ FailStep(h)) =>
                bucket'[h].reset = bucket[h].reset]_vars

C11_Witness ==
    /\ ret.op = "Add" /\ ret.err = "nil" /\ ret.failed
    /\ ret.cmds[Len(ret.cmds)] = "PTTL"
    /\ ret.state.reset <= now
    /\ ret.state.remaining = cfg.capacity - min(cfg.capacity, ret.count)
    /\ store.present /\ store.expireAt * millisecond > now

\* the frame of h's Add after a step: in flight, or just returned
FrameAfter(h) == IF pc'[h] = "idle" THEN ret' ELSE call'[h]

\* C12: when the GET of an Add fails with an error other than ErrNil, the
\* Add returns the store error with the snapshot the handle held before the
\* call, having issued GET alone; the store and the handle's remaining and
\* reset are unchanged and the handle is between calls.  A GET that finds no
\* key is no error: the Add goes on with remaining = capacity, as for a
\* counter of zero.
C12_GetFailureAborts ==
    [][\A h \in Handles :
          /\ (pc[h] = "idle" /\ FailStep(h)) =>
                /\ ret'.op = "Add" /\ ret'.err = "store"
                /\ ret'.cmds = <<"GET">>
                /\ ret'.state = State(bucket[h])
                /\ bucket'[h] = bucket[h]
                /\ store' = store
                /\ pc'[h] = "idle" /\ call'[h] = NoCall
          /\ (pc[h] = "idle" /\ ~FailStep(h) /\ FrameAfter(h).h = h /\ FrameAfter(h) # ret
              /\ ~store.present) =>
                /\ FrameAfter(h).got = ErrNil
                /\ FrameAfter(h).err # "store"
                /\ bucket'[h].remaining = cfg.capacity - min(cfg.capacity, 0)
                /\ (FrameAfter(h).amount <= cfg.capacity => pc'[h] = "a_incr")]_vars

C12_Witness ==
    /\ ret.op = "Add" /\ ret.err = "store" /\ ret.cmds = <<"GET">>
    /\ store.present /\ store.count = cfg.capacity
    /\ ret.state.remaining = cfg.capacity
    /\ bucket[ret.h].remaining = ret.state.remaining
    /\ pc[ret.h] = "idle"

\* C13: a Create whose GET fails with an error other than ErrNil, or whose
\* PTTL fails, returns the store error and no bucket (the caller holds no
\* handle afterwards) and leaves the store alone; Create issues PTTL if and
\* only if its GET found the counter.
C13_CreateFailures ==
    [][/\ \A h \in Handles :
             (pc[h] \in {"new", "c_pttl"} /\ FailStep(h)) =>
                /\ ret'.op = "Create" /\ ret'.err = "store"
                /\ ret'.state = NoState
                /\ pc'[h] = "new" /\ call'[h] = NoCall
                /\ bucket'[h] = NoBucket
                /\ store' = store
                /\ ret'.cmds = IF pc[h] = "new" THEN <<"GET">> ELSE <<"GET", "PTTL">>
       /\ ret'.op = "Create" =>
             /\ Issued(ret', "PTTL") <=> ret'.got \notin {ErrNil, NoReply}
             /\ ret'.err = "store" <=> ret'.failed]_vars

C13_Witness ==
    /\ ret.op = "Create" /\ ret.err = "store"
    /\ ret.cmds = <<"GET", "PTTL">> /\ ret.got # ErrNil
    /\ ret.state = NoState
    /\ pc[ret.h] = "new" /\ bucket[ret.h] = NoBucket
    /\ store.present

\* a call of h (Create or Add) returns in this step
Returns(h) == ret'.h = h /\ ret'.op \in {"Create", "Add"} /\ (ret' # ret \/ pc'[h] # pc[h])

\* C14: the accessors of a handle that is between calls return the fields
\* the handle holds, issue no store command and change neither the store nor
\* any handle; the fields a handle holds are those of the snapshot its last
\* Create or Add returned, and while the handle is between calls no step of
\* another handle and no expiry of the key changes them.
C14_AccessorsReadCache ==
    [][/\ (ret'.op = "State" /\ ret' # ret) =>
             /\ ret'.cmds = <<>>
             /\ ret'.state.capacity = bucket[ret'.h].capacity
             /\ ret'.state.remaining = bucket[ret'.h].remaining
             /\ ret'.state.reset = bucket[ret'.h].reset
             /\ store' = store /\ bucket' = bucket /\ pc' = pc
       /\ \A h \in Handles :
             /\ (Returns(h) /\ pc'[h] = "idle") =>
                   /\ ret'.state.capacity = bucket'[h].capacity
                   /\ ret'.state.remaining = bucket'[h].remaining
                   /\ ret'.state.reset = bucket'[h].reset
             /\ (pc[h] = "idle" /\ pc'[h] = "idle" /\ ~Returns(h)) =>
                   bucket'[h] = bucket[h]]_vars

C14_Witness ==
    /\ ret.op = "State" /\ ret.state.capacity = cfg.capacity
    /\ ret.state.remaining = cfg.capacity - 1
    /\ ret.state.reset = cfg.rate
    /\ store.present /\ store.count > 1
    /\ now > 0

\* the step of h's Add in which line 41 decides whether PTTL is sent
RefreshDecision(h) ==
    \/ pc[h] = "idle" /\ pc'[h] = "a_full_pttl"
    \/ pc[h] = "idle" /\ Returns(h) /\ ret'.err = "full"
    \/ pc[h] \in {"a_incr", "a_pexpire"} /\ pc'[h] \in {"a_pttl", "idle"} /\ ~FailStep(h)

SentUpTo(p) ==
    IF p = "idle" THEN <<"GET">>
    ELSE IF p = "a_incr" THEN <<"GET", "INCRBY">>
    ELSE <<"GET", "INCRBY", "PEXPIRE">>

\* C16: when the GET, INCRBY or PEXPIRE of an Add fails, the Add returns
\* the store error in that step with the handle's snapshot, having sent each
\* command once and none after the failing one, and the handle is between
\* calls; the failing step changes nothing in the store, so an increment
\* applied before a failed PEXPIRE stays in the counter.
C16_FailureSurfaced ==
    [][\A h \in Handles :
          (pc[h] \in {"idle", "a_incr", "a_pexpire"} /\ FailStep(h)) =>
             /\ ret'.op = "Add" /\ ret'.err = "store"
             /\ ret'.cmds = SentUpTo(pc[h])
             /\ pc'[h] = "idle" /\ call'[h] = NoCall
             /\ ret'.state = State(bucket'[h])
             /\ store' = store
             /\ (pc[h] = "a_pexpire" /\ call[h].clean) =>
                   /\ store'.present
                   /\ store'.count = call[h].count
                   /\ store'.count = Count(call[h].got) + call[h].amount]_vars

C16_Witness ==
    /\ ret.op = "Add" /\ ret.err = "store"
    /\ ret.cmds = <<"GET", "INCRBY", "PEXPIRE">>
    /\ ret.amount > 0
    /\ store.present /\ store.count = ret.amount
    /\ pc[ret.h] = "idle"

\* C17: when Adds never overlap (key expiry allowed at any point), the
\* store counter never exceeds the capacity; and since every INCRBY adds its
\* amount to the counter, which starts from 0 when the key is absent, and
\* nothing but expiry removes the key, the amounts admitted between two
\* consecutive expiries add up to the counter and so to at most the capacity.
C17_SequentialWithinCapacity ==
    [][/\ store'.present => store'.count <= cfg.capacity
       /\ \A h \in Handles : IncrStep(h) =>
             /\ store'.present
             /\ store'.count = (IF store.present THEN store.count ELSE 0) + call[h].amount
             /\ call[h].amount <= cfg.capacity - min(cfg.capacity, Count(call[h].got))
       /\ (store.present /\ store'.present /\ ~\E h \in Handles : IncrStep(h)) =>
             store'.count = store.count]_vars

C17_Witness ==
    /\ ret.op = "Add" /\ ret.err = "nil"
    /\ ret.got # ErrNil /\ ret.got > 0 /\ ret.amount > 0
    /\ ret.count = ret.amount
    /\ store.present /\ store.count = ret.amount
    /\ store.expireAt >= 3 * expiry(cfg.rate)

\* C18 as stated: whenever no Add is between its INCRBY and its PEXPIRE, a
\* counter that is present has an expiry, also after Adds that ended with a
\* store error.
C18_CounterHasExpiry ==
    (store.present /\ \A h \in Handles : pc[h] # "a_pexpire") => store.expireAt # -1

\* C19 as stated: once a key has its expiry, no Add of any amount, 0
\* included, changes that expiry for as long as the key lives.
C19_Original ==
    [][(store.present /\ store.expireAt # -1 /\ store'.present) =>
          store'.expireAt = store.expireAt]_vars

\* C19 amended: the window is fixed once the counter is positive.  An Add
\* whose INCRBY lands on a key with a positive counter sends no PEXPIRE and
\* leaves the expiry as it is, whatever its amount; the expiry of a key that
\* has one is moved only by the PEXPIRE of an Add whose INCRBY returned its
\* own amount, that is, found the counter at 0 (a key that an Add of amount 0
\* made or left at 0); an undisturbed Add that read the key as absent gives
\* the key its first expiry.
C19_WindowFixedOncePositive ==
    [][/\ \A h \in Handles :
             (IncrStep(h) /\ store.present /\ store.count > 0) =>
                /\ pc'[h] # "a_pexpire"
                /\ store'.expireAt = store.expireAt
                /\ pc'[h] = "idle" => ~Issued(ret', "PEXPIRE")
       /\ (store.present /\ store.expireAt # -1 /\ store'.present
           /\ store'.expireAt # store.expireAt) =>
             \E h \in Handles :
                /\ PexpireStep(h)
                /\ call[h].count = call[h].amount
                /\ call[h].amount = 0 \/ call[h].got = 0 \/ ~call[h].clean
       /\ \A h \in Handles :
             (PexpireStep(h) /\ call[h].clean /\ call[h].got = ErrNil) =>
                store.present /\ store.expireAt = -1]_vars

C19_Witness ==
    /\ ret.op = "Add" /\ ret.err = "nil" /\ ret.clean
    /\ ret.got # ErrNil /\ ret.got > 0
    /\ ~Issued(ret, "PEXPIRE")
    /\ now > 0
    /\ store.present /\ store.count = ret.got + ret.amount
    /\ store.expireAt = expiry(cfg.rate)

\* C20 as stated: from the moment the retrier is alone, store commands
\* succeed and time keeps advancing, whatever happened before (overlapping
\* Adds, Adds that ended with a store error), an Add of the retrier
\* eventually succeeds.
C20_EventuallyAdmitted ==
    (now = QuietFrom) ~> (ret.h = Retrier /\ ret.op = "Add" /\ ret.err = "nil")
====
